---- MODULE Spec2Model ----
(***************************************************************************)
(* Model of bl3d/evaluate.py: chunked inference over a big volume          *)
(* (forward_on_big_input), the per-voxel threshold sweep                   *)
(* (SegmentationMetrics.make), compute_confusion_matrix, compute_metrics   *)
(* and find_matches.                                                       *)
(*                                                                         *)
(* Each function is modelled by its own specification (SpecForward,        *)
(* SpecSweep, SpecConfusion, SpecMatches); the variables of the functions  *)
(* that a specification does not run stay at Idle.                         *)
(***************************************************************************)
EXTENDS Integers, Sequences, FiniteSets

\* ------------------------------------------------------------------ bounds
MaxExtent == 4      \* largest spatial extent of a volume
MaxHalo   == 1      \* largest padding (halo)
MaxChunk  == 4      \* largest max_size (chunk size)
DimChoices == {1, 2} \* numbers of spatial dimensions tried

Idle == <<>>

Min(a, b) == IF a < b THEN a ELSE b

VARIABLES
    \* forward_on_big_input
    pc,            \* position in forward_on_big_input
    volume,        \* input: [shape, data], data maps 0-based coordinates to values
    padding_arg,   \* argument padding  as passed: [isscalar, items]
    max_size_arg,  \* argument max_size as passed: [isscalar, items]
    padding,       \* padding  after listify/round
    max_size,      \* max_size after listify/round
    pending,       \* initial_coords the for loop has still to visit
    output,        \* the output buffer (coordinate -> value)
    net_calls,     \* number of times net(chunk) has been called
    writes,        \* history: per output voxel, how many tiles assigned to it
    source,        \* history: per output voxel, bounds of the chunk last assigned from
    \* compute_confusion_matrix
    cm_pc,         \* position in compute_confusion_matrix
    segmentation,  \* argument: boolean array [shape, data]
    label,         \* argument: boolean array [shape, data]
    cm_result,     \* what the call gave: [raised, value]
    \* SegmentationMetrics.make
    sw_pc,         \* position in make
    dataset,       \* the (prediction, label) pairs the dataloader yields, in its order
    tps, fps, tns, fns,
    accuracies, precisions, recalls, specificities, ious, f1s,
    master,        \* rows of SegmentationMetrics
    part,          \* rows of SegmentationMetrics.ThresholdSelection
    \* find_matches
    fm_pc,         \* position in find_matches
    labels,        \* argument: integer array, 0 for background
    prediction,    \* argument: boolean array of the same shape
    matches        \* the list find_matches returns

fwVars == <<pc, volume, padding_arg, max_size_arg, padding, max_size, pending,
            output, net_calls, writes, source>>

cmVars == <<cm_pc, segmentation, label, cm_result>>

swVars == <<sw_pc, dataset, tps, fps, tns, fns, accuracies, precisions, recalls,
            specificities, ious, f1s, master, part>>

fmVars == <<fm_pc, labels, prediction, matches>>

vars == <<fwVars, cmVars, swVars, fmVars>>

IdleForward ==
    /\ pc = Idle /\ volume = Idle /\ padding_arg = Idle /\ max_size_arg = Idle
    /\ padding = Idle /\ max_size = Idle /\ pending = Idle /\ output = Idle
    /\ net_calls = Idle /\ writes = Idle /\ source = Idle
IdleConfusion ==
    /\ cm_pc = Idle /\ segmentation = Idle /\ label = Idle /\ cm_result = Idle
IdleSweep ==
    /\ sw_pc = Idle /\ dataset = Idle /\ tps = Idle /\ fps = Idle /\ tns = Idle
    /\ fns = Idle /\ accuracies = Idle /\ precisions = Idle /\ recalls = Idle
    /\ specificities = Idle /\ ious = Idle /\ f1s = Idle /\ master = Idle /\ part = Idle
IdleMatches ==
    /\ fm_pc = Idle /\ labels = Idle /\ prediction = Idle /\ matches = Idle

\* ------------------------------------------------- forward_on_big_input
\* Python's range(start, stop, step) for a positive step, as a sequence.
RECURSIVE range(_, _, _)
range(start, stop, step) ==
    IF start >= stop THEN <<>>
    ELSE <<start>> \o range(start + step, stop, step)

\* itertools.product(*iterables): the tuples, last position varying fastest.
RECURSIVE product(_)
product(iterables) ==
    IF iterables = <<>> THEN << <<>> >>
    ELSE LET first == Head(iterables)
             rest  == product(Tail(iterables))
             n     == Len(rest)
         IN  [k \in 1..(Len(first) * n) |->
                 <<first[((k - 1) \div n) + 1]>> \o rest[((k - 1) % n) + 1]]

\* slice(start, stop) and slice(start, None)
slice(start, stop) == [start |-> start, stop |-> stop, bounded |-> TRUE]
sliceToEnd(start)  == [start |-> start, stop |-> 0, bounded |-> FALSE]

\* The indices a slice selects on an axis of extent n (starts and stops are never
\* negative here): Python clips the stop to the extent.
SliceStop(sl, n) == IF sl.bounded THEN Min(sl.stop, n) ELSE n
SliceIndices(sl, n) == sl.start .. (SliceStop(sl, n) - 1)
SliceLen(sl, n) == IF SliceStop(sl, n) > sl.start THEN SliceStop(sl, n) - sl.start ELSE 0

\* All 0-based coordinates of an array of the given shape.
RECURSIVE Coords(_)
Coords(shape) ==
    IF shape = <<>> THEN {<<>>}
    ELSE {Append(c, i) : c \in Coords(SubSeq(shape, 1, Len(shape) - 1)),
                         i \in 0..(shape[Len(shape)] - 1)}

spatial_dims == Len(volume.shape)

\* listify = lambda x: [x] * spatial_dims if np.isscalar(x) else list(x); the
\* int(round(x)) that follows is the identity on the ints the docstring asks for.
listify(x) == IF x.isscalar THEN [i \in 1..spatial_dims |-> x.items[1]] ELSE x.items

\* len(padding) != spatial_dims or len(max_size) != spatial_dims
WrongLength(pad, size) == Len(pad) # spatial_dims \/ Len(size) # spatial_dims

\* np.any(2 * np.array(padding) >= np.array(max_size))
PaddingTooLargeMutant(pad, size) == \E i \in 1..Len(pad) : 2 * pad[i] > size[i]
PaddingTooLarge(pad, size) == \E i \in 1..Len(pad) : 2 * pad[i] >= size[i]

\* [range(p, d, s - 2 * p) for p, d, s in zip(padding, volume.shape[2:], max_size)]
TileStarts == [i \in 1..spatial_dims |->
                  range(padding[i], volume.shape[i], max_size[i] - 2 * padding[i])]

\* cut_slices = [slice(c - p, c - p + s) for c, p, s in zip(initial_coords, padding, max_size)]
cut_slices(initial_coords) ==
    [i \in 1..spatial_dims |->
        slice(initial_coords[i] - padding[i], initial_coords[i] - padding[i] + max_size[i])]

\* chunk = volume[(..., *cut_slices)]
Cut(vol, slices) ==
    LET shp == [i \in 1..Len(vol.shape) |-> SliceLen(slices[i], vol.shape[i])]
    IN  [shape |-> shp,
         data  |-> [k \in Coords(shp) |->
                       vol.data[[i \in 1..Len(shp) |-> slices[i].start + k[i]]]]]

\* out = net(chunk), for the identity predictor: the output chunk is the input chunk.
net(chunk) == chunk

\* output_slices = [slice(0 if sl.start == 0 else c, sl.stop) for c, sl in zip(initial_coords, cut_slices)]
output_slices(initial_coords, cut) ==
    [i \in 1..spatial_dims |->
        slice(IF cut[i].start = 0 THEN 0 ELSE initial_coords[i], cut[i].stop)]

\* out_slices = [slice(0 if sl.start == 0 else p, None) for p, sl in zip(padding, cut_slices)]
out_slices(cut) ==
    [i \in 1..spatial_dims |-> sliceToEnd(IF cut[i].start = 0 THEN 0 ELSE padding[i])]

\* The coordinates of output that output[(..., *output_slices)] selects.
Target(oslices) ==
    {c \in Coords(volume.shape) :
        \A i \in 1..spatial_dims : c[i] \in SliceIndices(oslices[i], volume.shape[i])}

\* output[(..., *output_slices)] = out[(..., *out_slices)]
Assign(buf, oslices, out, islices) ==
    [c \in DOMAIN buf |->
        IF c \in Target(oslices)
        THEN out.data[[i \in 1..spatial_dims |->
                          islices[i].start + (c[i] - oslices[i].start)]]
        ELSE buf[c]]

\* The value the model gives the voxel at coordinate c: its row-major position plus
\* one. The function only copies voxels, so distinct non-zero values tell every source
\* position from every other and from the zeros output starts with. A value stands
\* for the whole (example, channel) vector the leading "..." axes carry along.
RECURSIVE ravel(_, _)
ravel(c, shape) ==
    IF c = <<>> THEN 0
    ELSE ravel(SubSeq(c, 1, Len(c) - 1), SubSeq(shape, 1, Len(shape) - 1)) * shape[Len(shape)]
         + c[Len(c)]

Volumes ==
    {[shape |-> shp, data |-> [c \in Coords(shp) |-> ravel(c, shp) + 1]] :
        shp \in UNION {[1..n -> 1..MaxExtent] : n \in DimChoices}}

\* An int, or a sequence of ints of any of the lengths tried.
Args(S) ==
    {[isscalar |-> TRUE, items |-> <<x>>] : x \in S}
    \cup {[isscalar |-> FALSE, items |-> xs] : xs \in UNION {[1..n -> S] : n \in DimChoices}}

InitForward ==
    /\ pc = "start"
    /\ volume \in Volumes
    /\ padding_arg \in Args(0..MaxHalo)
    /\ max_size_arg \in Args(1..MaxChunk)
    /\ padding = Idle
    /\ max_size = Idle
    /\ pending = Idle
    /\ output = Idle
    /\ net_calls = 0
    /\ writes = Idle
    /\ source = Idle
    /\ IdleConfusion /\ IdleSweep /\ IdleMatches

\* lines 276-285: the basic checks
RaiseWrongLength ==
    /\ pc = "start"
    /\ WrongLength(listify(padding_arg), listify(max_size_arg))
    /\ pc' = "raised"
    /\ padding' = listify(padding_arg)
    /\ max_size' = listify(max_size_arg)
    /\ UNCHANGED <<volume, padding_arg, max_size_arg, pending, output, net_calls,
                   writes, source>>
    /\ UNCHANGED <<cmVars, swVars, fmVars>>

RaisePaddingTooLarge ==
    /\ pc = "start"
    /\ ~WrongLength(listify(padding_arg), listify(max_size_arg))
    /\ PaddingTooLarge(listify(padding_arg), listify(max_size_arg))
    /\ pc' = "raised"
    /\ padding' = listify(padding_arg)
    /\ max_size' = listify(max_size_arg)
    /\ UNCHANGED <<volume, padding_arg, max_size_arg, pending, output, net_calls,
                   writes, source>>
    /\ UNCHANGED <<cmVars, swVars, fmVars>>

PassChecks ==
    /\ pc = "start"
    /\ ~WrongLength(listify(padding_arg), listify(max_size_arg))
    /\ ~PaddingTooLarge(listify(padding_arg), listify(max_size_arg))
    /\ pc' = "checked"
    /\ padding' = listify(padding_arg)
    /\ max_size' = listify(max_size_arg)
    /\ UNCHANGED <<volume, padding_arg, max_size_arg, pending, output, net_calls,
                   writes, source>>
    /\ UNCHANGED <<cmVars, swVars, fmVars>>

\* lines 288-290: output = torch.zeros(...) and the iterator of the for loop
Allocate ==
    /\ pc = "checked"
    /\ pc' = "loop"
    /\ output' = [c \in Coords(volume.shape) |-> 0]
    /\ pending' = product(TileStarts)
    /\ writes' = [c \in Coords(volume.shape) |-> 0]
    /\ source' = [c \in Coords(volume.shape) |-> <<>>]
    /\ UNCHANGED <<volume, padding_arg, max_size_arg, padding, max_size, net_calls>>
    /\ UNCHANGED <<cmVars, swVars, fmVars>>

\* lines 289-301: one iteration of the for loop
ForwardChunk ==
    /\ pc = "loop"
    /\ pending # <<>>
    /\ LET initial_coords == Head(pending)
           cut      == cut_slices(initial_coords)
           chunk    == Cut(volume, cut)
           out      == net(chunk)
           oslices  == output_slices(initial_coords, cut)
           islices  == out_slices(cut)
           lo       == [i \in 1..spatial_dims |-> cut[i].start]
           hi       == [i \in 1..spatial_dims |-> SliceStop(cut[i], volume.shape[i])]
       IN  /\ output' = Assign(output, oslices, out, islices)
           /\ writes' = [c \in DOMAIN writes |->
                            IF c \in Target(oslices) THEN writes[c] + 1 ELSE writes[c]]
           /\ source' = [c \in DOMAIN source |->
                            IF c \in Target(oslices) THEN <<lo, hi>> ELSE source[c]]
    /\ net_calls' = net_calls + 1
    /\ pending' = Tail(pending)
    /\ UNCHANGED <<pc, volume, padding_arg, max_size_arg, padding, max_size>>
    /\ UNCHANGED <<cmVars, swVars, fmVars>>

\* line 303: return output
ReturnOutput ==
    /\ pc = "loop"
    /\ pending = <<>>
    /\ pc' = "done"
    /\ UNCHANGED <<volume, padding_arg, max_size_arg, padding, max_size, pending,
                   output, net_calls, writes, source>>
    /\ UNCHANGED <<cmVars, swVars, fmVars>>

NextForward ==
    \/ RaiseWrongLength
    \/ RaisePaddingTooLarge
    \/ PassChecks
    \/ Allocate
    \/ ForwardChunk
    \/ ReturnOutput

SpecForward == InitForward /\ [][NextForward]_vars

\* In every iteration the two sides of the assignment of line 301 have the same shape.
AssignShapesAgree ==
    (pc = "loop" /\ pending # <<>>) =>
        LET cut == cut_slices(Head(pending))
            chunk == Cut(volume, cut)
        IN  \A i \in 1..spatial_dims :
                SliceLen(output_slices(Head(pending), cut)[i], volume.shape[i])
                    = SliceLen(out_slices(cut)[i], chunk.shape[i])

\* ------------------------------------------------ compute_confusion_matrix
MaxDim == 3              \* largest extent of an axis of a mask
MaxCells == 4            \* largest number of elements of a mask
RankChoices == {1, 2}    \* numbers of axes of a mask tried

Max(a, b) == IF a > b THEN a ELSE b

\* numpy's broadcasting of two shapes: aligned at the last axis, the shorter shape
\* filled with ones on the left; two extents go together when they are equal or one
\* of them is 1.
PadShape(shape, r) ==
    [i \in 1..r |-> IF i <= r - Len(shape) THEN 1 ELSE shape[i - (r - Len(shape))]]

BroadcastableMutant(s1, s2) == s1 = s2
Broadcastable(s1, s2) ==
    LET r == Max(Len(s1), Len(s2))
    IN  \A i \in 1..r :
            \/ PadShape(s1, r)[i] = PadShape(s2, r)[i]
            \/ PadShape(s1, r)[i] = 1
            \/ PadShape(s2, r)[i] = 1

BroadcastShape(s1, s2) ==
    LET r == Max(Len(s1), Len(s2))
    IN  [i \in 1..r |-> Max(PadShape(s1, r)[i], PadShape(s2, r)[i])]

\* The element of array a that position c of the broadcast result reads.
BroadcastGet(a, c) ==
    a.data[[i \in 1..Len(a.shape) |->
               IF a.shape[i] = 1 THEN 0 ELSE c[i + (Len(c) - Len(a.shape))]]]

\* np.logical_and, np.logical_not, np.sum on boolean arrays
logical_and(a, b) ==
    LET shp == BroadcastShape(a.shape, b.shape)
    IN  [shape |-> shp,
         data  |-> [c \in Coords(shp) |-> BroadcastGet(a, c) /\ BroadcastGet(b, c)]]

logical_not(a) == [shape |-> a.shape, data |-> [c \in DOMAIN a.data |-> ~a.data[c]]]

sum(a) == Cardinality({c \in DOMAIN a.data : a.data[c]})

\* compute_confusion_matrix(segmentation, label): the quadruple, or numpy's
\* "operands could not be broadcast together" ValueError out of the first logical_and.
compute_confusion_matrix(seg, lab) ==
    IF ~Broadcastable(seg.shape, lab.shape)
    THEN [raised |-> TRUE, value |-> <<>>]
    ELSE LET true_positive  == sum(logical_and(seg, lab))
             false_positive == sum(logical_and(seg, logical_not(lab)))
             true_negative  == sum(logical_and(logical_not(seg), logical_not(lab)))
             false_negative == sum(logical_and(logical_not(seg), lab))
         IN  [raised |-> FALSE,
              value  |-> <<true_positive, false_positive, true_negative, false_negative>>]

Shapes ==
    {shp \in UNION {[1..r -> 1..MaxDim] : r \in RankChoices} :
        Cardinality(Coords(shp)) <= MaxCells}
Masks == UNION {{[shape |-> shp, data |-> d] : d \in [Coords(shp) -> BOOLEAN]} : shp \in Shapes}

InitConfusion ==
    /\ cm_pc = "start"
    /\ segmentation \in Masks
    /\ label \in Masks
    /\ cm_result = Idle
    /\ IdleForward /\ IdleSweep /\ IdleMatches

\* lines 317-322, for operands that broadcast
ConfusionReturn ==
    /\ cm_pc = "start"
    /\ ~compute_confusion_matrix(segmentation, label).raised
    /\ cm_pc' = "done"
    /\ cm_result' = compute_confusion_matrix(segmentation, label)
    /\ UNCHANGED <<segmentation, label>>
    /\ UNCHANGED <<fwVars, swVars, fmVars>>

\* line 317, for operands that do not broadcast
ConfusionRaise ==
    /\ cm_pc = "start"
    /\ compute_confusion_matrix(segmentation, label).raised
    /\ cm_pc' = "raised"
    /\ cm_result' = compute_confusion_matrix(segmentation, label)
    /\ UNCHANGED <<segmentation, label>>
    /\ UNCHANGED <<fwVars, swVars, fmVars>>

NextConfusion ==
    \/ ConfusionReturn
    \/ ConfusionRaise

SpecConfusion == InitConfusion /\ [][NextConfusion]_vars

\* ------------------------------------------------------------ compute_metrics
\* A metric is the exact value of the float expression the code evaluates: num over
\* a polynomial in epsilon = 1e-7 whose coefficients, lowest power first, are den.
\* compute_metrics(true_positive, false_positive, true_negative, false_negative)
compute_metrics(tp, fp, tn, fn) ==
    LET accuracy    == [num |-> tp + tn, den |-> <<tp + tn + fp + fn, 1>>]
        sensitivity == [num |-> tp, den |-> <<tp + fn, 1>>]
        specificity == [num |-> tn, den |-> <<fp + tn, 1>>]
        precision   == [num |-> tp, den |-> <<tp + fp, 1>>]
        recall      == sensitivity
        iou         == [num |-> tp, den |-> <<tp + fp + fn, 1>>]
        \* (2 * precision * recall) / (precision + recall + epsilon), with
        \* precision = tp / (a + epsilon), recall = tp / (b + epsilon), multiplied out
        a           == tp + fp
        b           == tp + fn
        f1          == [num |-> 2 * tp * tp,
                        den |-> <<tp * (a + b), 2 * tp + a * b, a + b, 1>>]
    IN  <<iou, f1, accuracy, sensitivity, specificity, precision, recall>>

\* x > y for two metrics num / (n + epsilon) over counts far below 1 / epsilon:
\* x.num * (y.n + eps) > y.num * (x.n + eps).
FloatGreater(x, y) ==
    LET d == x.num * y.den[1] - y.num * x.den[1]
    IN  d > 0 \/ (d = 0 /\ x.num > y.num)

\* x == y for two such metrics
FloatEqual(x, y) == ~FloatGreater(x, y) /\ ~FloatGreater(y, x)

\* ------------------------------------------------- SegmentationMetrics.make
NumThresholds == 33      \* np.linspace(0, 1, 33)
MaxVoxels == 3           \* largest number of voxels in the whole dataset
ItemSizes == {1, 2}      \* numbers of voxels of one volume tried

\* thresholds[i] is (i - 1) / (NumThresholds - 1); the model keeps the numerator.
thresholds == [i \in 1..NumThresholds |-> i - 1]

\* A predicted probability is kept as its numerator over 2 * (NumThresholds - 1), so
\* that it may lie on a threshold or strictly between two of them. Two are tried:
\* one strictly between the first two thresholds, and 1, the last threshold.
ProbChoices == {1, 2 * (NumThresholds - 1)}

\* prediction[0, 1].cpu().numpy() > threshold: a depth x height x width mask, kept
\* flat, one axis holding all its voxels.
Threshold(prob, threshold) ==
    [shape |-> <<Len(prob)>>,
     data  |-> [c \in Coords(<<Len(prob)>>) |-> prob[c[1] + 1] > 2 * threshold]]

\* label.numpy(): the dataloader puts the batch axis of extent 1 in front.
LabelArray(lab) ==
    [shape |-> <<1, Len(lab)>>,
     data  |-> [c \in Coords(<<1, Len(lab)>>) |-> lab[c[2] + 1]]]

\* confusion_matrix += ...: elementwise sum
AddMutant(a, b) == b
Add(a, b) == <<a[1] + b[1], a[2] + b[2], a[3] + b[3], a[4] + b[4]>>

\* lines 82-93: np.zeros(4), then the loop over the dataloader
RECURSIVE Accumulate(_, _, _)
Accumulate(confusion_matrix, items, threshold) ==
    IF items = <<>> THEN confusion_matrix
    ELSE LET segm == Threshold(Head(items).prob, threshold)
             cm   == compute_confusion_matrix(segm, LabelArray(Head(items).label))
         IN  Accumulate(Add(confusion_matrix, cm.value), Tail(items), threshold)

\* max(ious): the first of the largest elements
max(seq) ==
    seq[CHOOSE i \in 1..Len(seq) :
            /\ \A j \in 1..Len(seq) : ~FloatGreater(seq[j], seq[i])
            /\ \A j \in 1..(i - 1) : FloatGreater(seq[i], seq[j])]

\* list.index(value): 1-based position of the first element equal to value
indexMutant(seq, value) ==
    CHOOSE i \in 1..Len(seq) :
        /\ FloatEqual(seq[i], value)
        /\ \A j \in (i + 1)..Len(seq) : ~FloatEqual(seq[j], value)
index(seq, value) ==
    CHOOSE i \in 1..Len(seq) :
        /\ FloatEqual(seq[i], value)
        /\ \A j \in 1..(i - 1) : ~FloatEqual(seq[j], value)

Voxels == ProbChoices \X BOOLEAN
\* A (image, label) pair of the dataloader, kept as what the sweep reads of it: per
\* voxel, prob is the probability of the positive class that lines 86-87 compute
\* from the image (the same at every threshold), label the ground truth.
ItemsOfSize(m) ==
    {[prob |-> [k \in 1..m |-> v[k][1]], label |-> [k \in 1..m |-> v[k][2]]] :
        v \in [1..m -> Voxels]}

\* The datasets of n voxels in all: any number of volumes (none when n = 0).
RECURSIVE DatasetsOf(_)
DatasetsOf(n) ==
    IF n = 0 THEN {<<>>}
    ELSE UNION {{<<item>> \o rest : item \in ItemsOfSize(m), rest \in DatasetsOf(n - m)} :
                   m \in {k \in ItemSizes : k <= n}}

Datasets == UNION {DatasetsOf(n) : n \in 0..MaxVoxels}

\* lines 62-78
InitSweep ==
    /\ sw_pc = "sweep"
    /\ dataset \in Datasets
    /\ tps = <<>> /\ fps = <<>> /\ tns = <<>> /\ fns = <<>>
    /\ accuracies = <<>> /\ precisions = <<>> /\ recalls = <<>>
    /\ specificities = <<>> /\ ious = <<>> /\ f1s = <<>>
    /\ master = <<>>
    /\ part = <<>>
    /\ IdleForward /\ IdleConfusion /\ IdleMatches

\* confusion_matrix = np.zeros(4), inside the loop over thresholds. The mutant is the
\* array allocated once, before that loop: it still holds the last threshold's counts.
NewConfusionMatrixMutant ==
    IF tps = <<>> THEN <<0, 0, 0, 0>>
    ELSE <<tps[Len(tps)], fps[Len(fps)], tns[Len(tns)], fns[Len(fns)]>>
NewConfusionMatrix == <<0, 0, 0, 0>>

\* lines 79-110: the body of the loop over thresholds, for the next threshold
SweepThreshold ==
    /\ sw_pc = "sweep"
    /\ Len(ious) < NumThresholds
    /\ \E confusion_matrix \in {Accumulate(NewConfusionMatrix, dataset, thresholds[Len(ious) + 1])} :
       \E metrics \in {compute_metrics(confusion_matrix[1], confusion_matrix[2],
                                       confusion_matrix[3], confusion_matrix[4])} :
           /\ tps' = Append(tps, confusion_matrix[1])
           /\ fps' = Append(fps, confusion_matrix[2])
           /\ tns' = Append(tns, confusion_matrix[3])
           /\ fns' = Append(fns, confusion_matrix[4])
           /\ accuracies' = Append(accuracies, metrics[3])
           /\ precisions' = Append(precisions, metrics[6])
           /\ recalls' = Append(recalls, metrics[7])
           /\ specificities' = Append(specificities, metrics[5])
           /\ ious' = Append(ious, metrics[1])
           /\ f1s' = Append(f1s, metrics[2])
    /\ UNCHANGED <<sw_pc, dataset, master, part>>
    /\ UNCHANGED <<fwVars, cmVars, fmVars>>

\* lines 112-123: pick the best threshold and insert both rows
InsertBest ==
    /\ sw_pc = "sweep"
    /\ Len(ious) = NumThresholds
    /\ LET best_iou == max(ious)
           best_threshold == thresholds[index(ious, best_iou)]
           best_f1 == f1s[index(ious, best_iou)]
       IN  master' = Append(master, [best_threshold |-> best_threshold,
                                     best_iou |-> best_iou, best_f1 |-> best_f1])
    /\ part' = Append(part, [thresholds |-> thresholds, tps |-> tps, fps |-> fps,
                             tns |-> tns, fns |-> fns, accuracies |-> accuracies,
                             precisions |-> precisions, recalls |-> recalls,
                             specificities |-> specificities, ious |-> ious,
                             f1s |-> f1s])
    /\ sw_pc' = "done"
    /\ UNCHANGED <<dataset, tps, fps, tns, fns, accuracies, precisions, recalls,
                   specificities, ious, f1s>>
    /\ UNCHANGED <<fwVars, cmVars, fmVars>>

NextSweep ==
    \/ SweepThreshold
    \/ InsertBest

SpecSweep == InitSweep /\ [][NextSweep]_vars

\* ------------------------------------------------------------- find_matches
MaxLen == 3              \* largest number of voxels of a labelled volume
MaxLabel == 2            \* largest ground truth label

\* np.unique(values): the distinct values, ascending
RECURSIVE unique(_)
unique(S) ==
    IF S = {} THEN <<>>
    ELSE LET least == CHOOSE m \in S : \A x \in S : m <= x
         IN  <<least>> \o unique(S \ {least})

\* An iou is kept as the two sums the code divides: num / den.
RatioGreater(x, y) == x.num * y.den > y.num * x.den

\* sorted(ious, key=lambda x: x[1], reverse=True): by decreasing iou, stable (pairs
\* of equal iou keep the order they had).
Insert(seq, x) ==
    LET smaller == {k \in 1..Len(seq) : RatioGreater(x[2], seq[k][2])}
        at == IF smaller = {} THEN Len(seq) + 1
              ELSE CHOOSE k \in smaller : \A j \in smaller : k <= j
    IN  SubSeq(seq, 1, at - 1) \o <<x>> \o SubSeq(seq, at, Len(seq))

RECURSIVE sortedFrom(_, _)
sortedFrom(done, rest) ==
    IF rest = <<>> THEN done ELSE sortedFrom(Insert(done, Head(rest)), Tail(rest))
sorted(seq) == sortedFrom(<<>>, seq)

\* find_matches(labels, prediction), the arrays kept flat
find_matches(labs, pred) ==
    LET voxels == DOMAIN labs
        found  == unique({labs[i] : i \in {j \in voxels : pred[j]}})
        iou(l) == [num |-> Cardinality({i \in voxels : labs[i] = l /\ pred[i]}),
                   den |-> Cardinality({i \in voxels : labs[i] = l \/ pred[i]})]
    IN  sorted([k \in 1..Len(found) |-> <<found[k], iou(found[k])>>])

InitMatches ==
    /\ fm_pc = "start"
    /\ \E n \in 1..MaxLen :
           /\ labels \in [1..n -> 0..MaxLabel]
           /\ prediction \in [1..n -> BOOLEAN]
    /\ matches = <<>>
    /\ IdleForward /\ IdleConfusion /\ IdleSweep

\* lines 245-252
FindMatches ==
    /\ fm_pc = "start"
    /\ fm_pc' = "done"
    /\ matches' = find_matches(labels, prediction)
    /\ UNCHANGED <<labels, prediction>>
    /\ UNCHANGED <<fwVars, cmVars, swVars>>

NextMatches == FindMatches

SpecMatches == InitMatches /\ [][NextMatches]_vars

\* ---------------------------------------------- claims on forward_on_big_input
\* C1: when forward_on_big_input returns, every output voxel has been assigned by
\* exactly one tile: none by two tiles (no overlap), none by no tile (no gaps).
C1_EveryVoxelWrittenOnce ==
    pc = "done" => \A c \in DOMAIN writes : writes[c] = 1

\* C2: with the identity predictor the returned output equals the input volume at
\* every voxel, for every shape and every configuration that passes the checks.
C2_IdentityOutputEqualsInput ==
    pc = "done" => \A c \in DOMAIN output : output[c] = volume.data[c]

\* padding and max_size as the caller passed them, at spatial dimension d
ArgAt(x, d) == IF x.isscalar THEN x.items[1] ELSE x.items[d]
ArgHasLength(x) == x.isscalar \/ Len(x.items) = spatial_dims

\* A per-dimension sequence has a length other than the number of spatial dimensions,
\* or 2 * padding[d] >= max_size[d] for some spatial dimension d.
C3_BadConfiguration ==
    \/ ~ArgHasLength(padding_arg)
    \/ ~ArgHasLength(max_size_arg)
    \/ \E d \in 1..spatial_dims : 2 * ArgAt(padding_arg, d) >= ArgAt(max_size_arg, d)

\* C3: the call fails with the configuration error, before the predictor is invoked
\* on any chunk, whenever the configuration is bad in the sense above, and does not
\* fail this way when both checks pass.
C3_RaisesExactlyOnBadConfiguration ==
    /\ pc # "start" => (pc = "raised" <=> C3_BadConfiguration)
    /\ pc = "raised" => net_calls = 0
    /\ net_calls > 0 => ~C3_BadConfiguration

\* C3 witness: a call that raised for the halo alone, with lengths in order, in a
\* volume of two spatial dimensions where only one dimension violates the bound.
C3_Witness ==
    /\ pc = "raised"
    /\ spatial_dims = 2
    /\ ArgHasLength(padding_arg) /\ ArgHasLength(max_size_arg)
    /\ \E d \in 1..2 : 2 * ArgAt(padding_arg, d) < ArgAt(max_size_arg, d)

\* C10: when forward_on_big_input returns, the value at every output voxel was
\* assigned from a chunk in which the voxel lies at least padding voxels away from
\* each side of the chunk, save the sides that lie on the volume's own boundary.
C10_FinalValuesFromChunkInterior ==
    pc = "done" =>
        \A c \in DOMAIN source :
            /\ source[c] # <<>>
            /\ LET lo == source[c][1]
                   hi == source[c][2]
               IN  \A i \in 1..spatial_dims :
                       /\ (c[i] - lo[i] >= padding[i] \/ lo[i] = 0)
                       /\ (hi[i] - 1 - c[i] >= padding[i] \/ hi[i] = volume.shape[i])

\* What holds of the tiling instead (not a claim): every voxel that some tile
\* assigned holds the input's value and comes from the interior of its last chunk.
WrittenVoxelsAreRight ==
    pc = "done" =>
        \A c \in DOMAIN source :
            source[c] # <<>> =>
                /\ output[c] = volume.data[c]
                /\ LET lo == source[c][1]
                       hi == source[c][2]
                   IN  \A i \in 1..spatial_dims :
                           /\ (c[i] - lo[i] >= padding[i] \/ lo[i] = 0)
                           /\ (hi[i] - 1 - c[i] >= padding[i] \/ hi[i] = volume.shape[i])

\* Voxels stay unassigned exactly when some extent is at most its padding.
GapsOnlyInThinVolumes ==
    pc = "done" =>
        ((\E c \in DOMAIN writes : writes[c] = 0)
            <=> \E i \in 1..spatial_dims : volume.shape[i] <= padding[i])

\* A voxel is assigned twice only when padding is positive.
OverlapOnlyWithHalo ==
    pc = "done" =>
        \A c \in DOMAIN writes :
            writes[c] > 1 => \E i \in 1..spatial_dims : padding[i] > 0

C6_ShapesClash ==
    \E k \in 1..Min(Len(segmentation.shape), Len(label.shape)) :
        LET a == segmentation.shape[Len(segmentation.shape) + 1 - k]
            b == label.shape[Len(label.shape) + 1 - k]
        IN  a # b /\ a # 1 /\ b # 1

C4_BestIsFirstLargestIou ==
    sw_pc = "done" =>
        /\ Len(master) = 1
        /\ LET row == master[1]
               k   == row.best_threshold + 1
           IN  /\ \A i \in 1..NumThresholds : ~FloatGreater(ious[i], row.best_iou)
               /\ row.best_iou = ious[k]
               /\ \A i \in 1..(k - 1) : FloatGreater(row.best_iou, ious[i])
               /\ row.best_f1 = f1s[k]
               /\ row.best_f1 = compute_metrics(tps[k], fps[k], tns[k], fns[k])[2]

\* C4 witness: the sweep ended with a best threshold that is not the first one and
\* whose positive iou a later threshold ties.
C4_Witness ==
    /\ sw_pc = "done"
    /\ master[1].best_threshold > 0
    /\ master[1].best_iou.num > 0
    /\ \E i \in (master[1].best_threshold + 2)..NumThresholds :
           FloatEqual(ious[i], master[1].best_iou)

\* C5: with an empty dataset the sweep fails and inserts no row.
C5_EmptyDatasetInsertsNothing ==
    dataset = <<>> => (sw_pc # "done" /\ master = <<>> /\ part = <<>>)

\* What the sweep does with an empty dataset (not a claim): it inserts the first
\* threshold as the best one, with an iou and an F1 of zero.
EmptyDatasetRow ==
    (dataset = <<>> /\ sw_pc = "done") =>
        /\ master[1].best_threshold = 0
        /\ master[1].best_iou.num = 0
        /\ master[1].best_f1.num = 0
        /\ \A i \in 1..NumThresholds : tps[i] + fps[i] + tns[i] + fns[i] = 0

Orders(n) == {p \in [1..n -> 1..n] : \A i, j \in 1..n : p[i] = p[j] => i = j}

\* The quadruple of each volume of the dataset at a threshold, in the dataset's order.
ItemCounts(threshold) ==
    [k \in 1..Len(dataset) |->
        compute_confusion_matrix(Threshold(dataset[k].prob, threshold),
                                 LabelArray(dataset[k].label)).value]

\* Quadruples merged one after the other, starting from zeros.
RECURSIVE Merge(_, _)
Merge(acc, counts) ==
    IF counts = <<>> THEN acc ELSE Merge(Add(acc, Head(counts)), Tail(counts))

\* C8: the accumulation is an elementwise sum, commutative and associative, so the
\* quadruple accumulated for a threshold is the same for every order in which the
\* volumes are processed and for every split into two parts merged afterwards.
C8_AccumulationOrderIndependent ==
    (sw_pc = "sweep" /\ Len(tps) > 0) =>
        LET k == Len(tps)
            n == Len(dataset)
            zero == <<0, 0, 0, 0>>
            total == <<tps[k], fps[k], tns[k], fns[k]>>
        IN  \A counts \in {ItemCounts(thresholds[k])} :
                /\ \A p \in Orders(n) : Merge(zero, [i \in 1..n |-> counts[p[i]]]) = total
                /\ \A m \in 0..n :
                       Add(Merge(zero, SubSeq(counts, 1, m)),
                           Merge(zero, SubSeq(counts, m + 1, n))) = total
                /\ \A i, j \in 1..n : Add(counts[i], counts[j]) = Add(counts[j], counts[i])
                /\ \A i, j, l \in 1..n :
                       Add(Add(counts[i], counts[j]), counts[l])
                           = Add(counts[i], Add(counts[j], counts[l]))

\* C8 witness: a threshold was accumulated over at least two volumes whose
\* quadruples differ.
C8_Witness ==
    /\ sw_pc = "sweep"
    /\ Len(tps) > 0
    /\ Len(dataset) >= 2
    /\ \E i, j \in 1..Len(dataset) :
           ItemCounts(thresholds[Len(tps)])[i] # ItemCounts(thresholds[Len(tps)])[j]

\* The voxels of the dataset whose ground truth is b.
RECURSIVE LabelCount(_, _)
LabelCount(items, b) ==
    IF items = <<>> THEN 0
    ELSE Cardinality({k \in 1..Len(Head(items).label) : Head(items).label[k] = b})
         + LabelCount(Tail(items), b)

\* C11: over one dataset, for any two thresholds t1 < t2 of the sweep, tp and fp do
\* not grow and tn and fn do not shrink; tp + fn is the number of ground truth
\* positives and fp + tn the number of ground truth negatives at every threshold, so
\* the four counts add up to the number of voxels of the dataset and nothing is
\* carried over from one threshold to the next.
C11_CountsMonotoneAndConserved ==
    sw_pc \in {"sweep", "done"} =>
        /\ \A i, j \in 1..Len(tps) :
               i < j => /\ tps[i] >= tps[j]
                        /\ fps[i] >= fps[j]
                        /\ tns[i] <= tns[j]
                        /\ fns[i] <= fns[j]
        /\ \A i \in 1..Len(tps) :
               /\ tps[i] + fns[i] = LabelCount(dataset, TRUE)
               /\ fps[i] + tns[i] = LabelCount(dataset, FALSE)
               /\ tps[i] + fps[i] + tns[i] + fns[i]
                      = LabelCount(dataset, TRUE) + LabelCount(dataset, FALSE)

\* C11 witness: the sweep is over, over at least two volumes, and between two
\* thresholds tp and fp both fell while tn and fn both rose.
C11_Witness ==
    /\ sw_pc = "done"
    /\ Len(dataset) >= 2
    /\ \E i, j \in 1..NumThresholds :
           /\ i < j
           /\ tps[i] > tps[j] /\ fps[i] > fps[j]
           /\ tns[i] < tns[j] /\ fns[i] < fns[j]
           /\ tps[j] > 0

\* ------------------------------------------------------ claims on find_matches
\* The ground truth instances (positive labels) with a voxel inside the prediction.
C7_Overlapping == {l \in 1..MaxLabel : \E i \in DOMAIN labels : labels[i] = l /\ prediction[i]}

\* C7: find_matches returns exactly one (label, iou) pair per ground truth instance
\* that overlaps the prediction and none for any other id (0 is background); each
\* iou is |instance and prediction| / |instance or prediction| and positive; the
\* pairs come by non-increasing iou.
C7_OnePairPerOverlappingInstance ==
    fm_pc = "done" =>
        /\ {matches[k][1] : k \in 1..Len(matches)} = C7_Overlapping
        /\ Len(matches) = Cardinality(C7_Overlapping)
        /\ \A k \in 1..Len(matches) :
               /\ matches[k][2].num = Cardinality({i \in DOMAIN labels :
                                           labels[i] = matches[k][1] /\ prediction[i]})
               /\ matches[k][2].den = Cardinality({i \in DOMAIN labels :
                                           labels[i] = matches[k][1] \/ prediction[i]})
               /\ matches[k][2].num > 0
        /\ \A k \in 1..(Len(matches) - 1) : ~RatioGreater(matches[k + 1][2], matches[k][2])

\* What find_matches returns instead (not a claim): the same, with a pair for label
\* 0 as well whenever the prediction covers a background voxel.
MatchesIncludeBackground ==
    fm_pc = "done" =>
        /\ {matches[k][1] : k \in 1..Len(matches)}
               = {labels[i] : i \in {j \in DOMAIN labels : prediction[j]}}
        /\ Len(matches) = Cardinality({labels[i] : i \in {j \in DOMAIN labels : prediction[j]}})
        /\ \A k \in 1..(Len(matches) - 1) : ~RatioGreater(matches[k + 1][2], matches[k][2])

====
